---- MODULE Spec2Model ----
(***************************************************************************)
(* Model of the hash reconciliation and auto-snapshot scheduling of        *)
(* src/cpp/session/modules/SessionPackrat.cpp.                             *)
(*                                                                         *)
(* The session runs its handlers on one thread, so every handler           *)
(* (onFileChanged, onPackageLibraryMutated, the completion of the          *)
(* snapshot process) is one atomic action.  onFilesChanged delivers        *)
(* a batch by calling onFileChanged once per element, so a batch is a      *)
(* run of OnFileChanged steps.  The handlers are written as operators      *)
(* from a state record to a state record, in the order of the code.        *)
(* The disk (lockfile, library) changes independently of the handlers.     *)
(***************************************************************************)
EXTENDS Naturals, Sequences, FiniteSets, TLC

\* ------------------------------------------------------------------ bounds
\* cap on the queued snapshot requests (pendingSnapshots is an unbounded int)
MaxPending == 2

\* --------------------------------------------------------------- constants
HASH_TYPE_LOCKFILE == 0
HASH_TYPE_LIBRARY == 1
SET_PENDING_SNAPSHOT == 0
COMPLETE_SNAPSHOT == 1

VARIABLES
  lockfile,              \* packrat/packrat.lock on disk: [exists, content]
  library,               \* packrat/lib on disk: [exists, desc], desc the DESCRIPTION contents in traversal order
  stored,                \* clientState project-persistent values of scope "packrat", by key
  pendingSnapshots,      \* static int of pendingSnapshot
  pAutoSnapshot,         \* static shared_ptr of performAutoSnapshot: [null, targetHash]
  running,               \* the AutoSnapshot processes that are running: [targetHash, current]
  recursionGuardCounter, \* static counter of DROP_RECURSIVE_CALLS in checkHashes
  deferred,              \* history: the targets of the requests queued since the last start
  last                   \* history: the last step, the state before it and what it did

vars == <<lockfile, library, stored, pendingSnapshots, pAutoSnapshot, running,
          recursionGuardCounter, deferred, last>>

\* ------------------------------------------------------------------- disk
FileContents == {"x", "y"}

Lockfiles == {[exists |-> FALSE, content |-> ""]}
             \cup {[exists |-> TRUE, content |-> c] : c \in FileContents}

\* the DESCRIPTION files of the library, in traversal order
DescListings == {<<>>, <<"x">>, <<"x", "y">>}

Libraries == {[exists |-> FALSE, desc |-> <<>>]}
             \cup {[exists |-> TRUE, desc |-> d] : d \in DescListings}

\* hash::crc32HexHash: CRC-32 of the bytes, printed with std::hex
crc32HexHash(content) ==
  CASE content = ""    -> "0"
    [] content = "x"   -> "8cdc1683"
    [] content = "y"   -> "fbdb2615"
    [] content = "xy"  -> "8fe62899"

\* libraryPath.childrenRecursive(addDescContent): appends every DESCRIPTION
RECURSIVE addDescContent(_)
addDescContent(desc) ==
  IF desc = <<>> THEN "" ELSE Head(desc) \o addDescContent(Tail(desc))

computeLibraryHashOf(lib) ==
  LET descFileContent == addDescContent(lib.desc)
  IN IF descFileContent = "" THEN "" ELSE crc32HexHash(descFileContent)

computeLibraryHash == computeLibraryHashOf(library)

computeLockfileHashOf(lf) ==
  IF ~lf.exists THEN "" ELSE crc32HexHash(lf.content)

computeLockfileHash == computeLockfileHashOf(lockfile)

getComputedHash(hashType) ==
  IF hashType = HASH_TYPE_LOCKFILE THEN computeLockfileHash
  ELSE computeLibraryHash

\* ------------------------------------------------------------ hash store
keyOfHashType(hashType) ==
  IF hashType = HASH_TYPE_LOCKFILE THEN "packratLockfileHash"
  ELSE "packratLibraryHash"

Keys == {keyOfHashType(HASH_TYPE_LOCKFILE), keyOfHashType(HASH_TYPE_LIBRARY)}

\* a json value of the store: a string, or anything else (absent)
NullValue == [type |-> "null", str |-> ""]
StringValue(h) == [type |-> "string", str |-> h]

Log(s, entry) == [s EXCEPT !.log = Append(@, entry)]

\* getStoredHash telling an absent value from the empty string
getStoredHash_absentAsNull(s, hashType) ==
  LET hash == s.stored[keyOfHashType(hashType)]
  IN IF hash.type = "string" THEN hash.str ELSE "null"

getStoredHash(s, hashType) ==
  LET hash == s.stored[keyOfHashType(hashType)]
  IN IF hash.type = "string" THEN hash.str ELSE ""

setStoredHash(s, hashType, hash) ==
  Log([s EXCEPT !.stored[keyOfHashType(hashType)] = StringValue(hash)],
      <<"setStoredHash", keyOfHashType(hashType), hash>>)

\* ------------------------------------------------------------- file paths
\* a FilePath below the project directory: its components, and whether the
\* disk holds a directory there
ProjectDirName == "project"
libraryPath == [comps |-> <<"packrat", "lib">>, isDirectory |-> TRUE]

filename(path) ==
  IF path.comps = <<>> THEN ProjectDirName ELSE path.comps[Len(path.comps)]

parent(path) ==
  [comps |-> IF path.comps = <<>> THEN <<>>
             ELSE SubSeq(path.comps, 1, Len(path.comps) - 1),
   isDirectory |-> TRUE]

isWithin(path, scopePath) ==
  /\ Len(scopePath.comps) <= Len(path.comps)
  /\ SubSeq(path.comps, 1, Len(scopePath.comps)) = scopePath.comps

File(comps) == [comps |-> comps, isDirectory |-> FALSE]
Dir(comps) == [comps |-> comps, isDirectory |-> TRUE]

LockfilePath == File(<<"packrat", "packrat.lock">>)
DescriptionPath == File(<<"packrat", "lib", "pkg", "DESCRIPTION">>)

\* the file-change events of the project: the lockfile, and a package's
\* DESCRIPTION in the library
Paths == {LockfilePath, DescriptionPath}

NoPath == Dir(<<>>)

\* ------------------------------------------------------- recursion guard
\* core::RecursionGuard: the constructor increments the counter, the
\* destructor decrements it, and a call recurses when the counter exceeds 1
isCurrentlyRecursing(counter) == counter > 1

enterGuard(s) == [s EXCEPT !.recursionGuardCounter = @ + 1]
leaveGuard(s) == [s EXCEPT !.recursionGuardCounter = @ - 1]

\* ----------------------------------------------------------- the handlers
\* The state record s of a handler holds the program's variables, the
\* file-change events the session delivers while the handler waits in a
\* call into R (nest), the answer of .rs.pendingRestoreActions (query) and
\* the log of what the handler did.

RECURSIVE onFileChanged(_, _)
RECURSIVE checkHashes(_, _, _, _)
RECURSIVE performAutoSnapshot(_, _)
RECURSIVE pendingSnapshot(_, _)

\* a call into R (r::exec::RFunction::call): the events delivered meanwhile
RECURSIVE rCall(_)
rCall(s) ==
  IF s.nest = <<>> THEN s
  ELSE rCall(onFileChanged([s EXCEPT !.nest = Tail(@)], Head(s.nest)))

\* AsyncRProcess::isRunning of the object pAutoSnapshot points to
isRunning(s) == \E i \in 1..Len(s.running) : s.running[i].current

\* AutoSnapshot::create: asks R for the command, then starts the process;
\* performAutoSnapshot assigns the result to pAutoSnapshot
create(s, targetHash) ==
  LET s1 == rCall(s)
  IN Log([s1 EXCEPT
            !.running = Append([i \in 1..Len(s1.running) |->
                                  [s1.running[i] EXCEPT !.current = FALSE]],
                               [targetHash |-> targetHash, current |-> TRUE]),
            !.pAutoSnapshot = [null |-> FALSE, targetHash |-> targetHash],
            !.deferred = {}],
         <<"start", targetHash>>)

\* performAutoSnapshot without the isRunning test
performAutoSnapshot_noRunningCheck(s, newHash) ==
  create(Log(s, <<"performAutoSnapshot", newHash>>), newHash)

\* performAutoSnapshot without the comparison of the target hashes
performAutoSnapshot_neverIgnore(s, newHash) ==
  LET s1 == Log(s, <<"performAutoSnapshot", newHash>>)
  IN IF ~s1.pAutoSnapshot.null /\ isRunning(s1)
     THEN pendingSnapshot([s1 EXCEPT !.deferred = @ \cup {newHash}],
                          SET_PENDING_SNAPSHOT)
     ELSE create(s1, newHash)

performAutoSnapshot(s, newHash) ==
  LET s1 == Log(s, <<"performAutoSnapshot", newHash>>)
  IN IF ~s1.pAutoSnapshot.null /\ isRunning(s1)
     THEN IF s1.pAutoSnapshot.targetHash = newHash
          THEN Log(s1, <<"ignore", newHash>>)
          ELSE pendingSnapshot([s1 EXCEPT !.deferred = @ \cup {newHash}],
                               SET_PENDING_SNAPSHOT)
     ELSE create(s1, newHash)

enqueClientEvent(s, event) == Log(s, <<"event", event>>)

\* pendingSnapshot starting the queued snapshot for the finished run's target
pendingSnapshot_staleTarget(s, action) ==
  IF action = SET_PENDING_SNAPSHOT
  THEN Log([s EXCEPT !.pendingSnapshots = @ + 1], <<"queue">>)
  ELSE IF s.pendingSnapshots > 0
       THEN performAutoSnapshot([s EXCEPT !.pendingSnapshots = 0],
                                s.pAutoSnapshot.targetHash)
       ELSE enqueClientEvent(
              setStoredHash(
                setStoredHash(s, HASH_TYPE_LOCKFILE, computeLockfileHash),
                HASH_TYPE_LIBRARY, computeLibraryHash),
              "kInstalledPackagesChanged")

\* pendingSnapshot forgetting the queued requests when a run completes
pendingSnapshot_dropQueue(s, action) ==
  IF action = SET_PENDING_SNAPSHOT
  THEN Log([s EXCEPT !.pendingSnapshots = @ + 1], <<"queue">>)
  ELSE enqueClientEvent(
         setStoredHash(
           setStoredHash([s EXCEPT !.pendingSnapshots = 0],
                         HASH_TYPE_LOCKFILE, computeLockfileHash),
           HASH_TYPE_LIBRARY, computeLibraryHash),
         "kInstalledPackagesChanged")

\* pendingSnapshot refreshing the library hash alone
pendingSnapshot_libraryOnly(s, action) ==
  IF action = SET_PENDING_SNAPSHOT
  THEN Log([s EXCEPT !.pendingSnapshots = @ + 1], <<"queue">>)
  ELSE IF s.pendingSnapshots > 0
       THEN performAutoSnapshot([s EXCEPT !.pendingSnapshots = 0],
                                computeLibraryHash)
       ELSE enqueClientEvent(
              setStoredHash(s, HASH_TYPE_LIBRARY, computeLibraryHash),
              "kInstalledPackagesChanged")

pendingSnapshot(s, action) ==
  IF action = SET_PENDING_SNAPSHOT
  THEN Log([s EXCEPT !.pendingSnapshots = @ + 1], <<"queue">>)
  ELSE IF action = COMPLETE_SNAPSHOT
  THEN IF s.pendingSnapshots > 0
       THEN performAutoSnapshot([s EXCEPT !.pendingSnapshots = 0],
                                computeLibraryHash)
       ELSE enqueClientEvent(
              setStoredHash(
                setStoredHash(s, HASH_TYPE_LOCKFILE, computeLockfileHash),
                HASH_TYPE_LIBRARY, computeLibraryHash),
              "kInstalledPackagesChanged")
  ELSE s

\* onCompleted without the test of the exit status
onCompleted_ignoreExit(s, exitStatus) == pendingSnapshot(s, COMPLETE_SNAPSHOT)

onCompleted(s, exitStatus) ==
  IF exitStatus # 0 THEN s ELSE pendingSnapshot(s, COMPLETE_SNAPSHOT)

\* onLockfileUpdate updating the hash whatever the pending restore actions
onLockfileUpdate_alwaysPersist(s, oldHash, newHash) ==
  LET s1 == Log(rCall(Log(s, <<"onLockfileUpdate", oldHash, newHash>>)),
                <<"pendingRestoreActions", s.query>>)
  IN IF s1.query = "error" THEN s1
     ELSE IF s1.query = "none"
     THEN setStoredHash(s1, HASH_TYPE_LOCKFILE, newHash)
     ELSE enqueClientEvent(setStoredHash(s1, HASH_TYPE_LOCKFILE, newHash),
                           "kPackratRestoreNeeded")

\* onLockfileUpdate going on after a failed query as after an empty answer
onLockfileUpdate_errorAsNone(s, oldHash, newHash) ==
  LET s1 == Log(rCall(Log(s, <<"onLockfileUpdate", oldHash, newHash>>)),
                <<"pendingRestoreActions", s.query>>)
  IN IF s1.query = "error" \/ s1.query = "none"
     THEN setStoredHash(s1, HASH_TYPE_LOCKFILE, newHash)
     ELSE enqueClientEvent(s1, "kPackratRestoreNeeded")

onLockfileUpdate(s, oldHash, newHash) ==
  LET s1 == Log(rCall(Log(s, <<"onLockfileUpdate", oldHash, newHash>>)),
                <<"pendingRestoreActions", s.query>>)
  IN IF s1.query = "error" THEN s1
     ELSE IF s1.query = "none"
     THEN setStoredHash(s1, HASH_TYPE_LOCKFILE, newHash)
     ELSE enqueClientEvent(s1, "kPackratRestoreNeeded")

onLibraryUpdate(s, oldHash, newHash) ==
  performAutoSnapshot(Log(s, <<"onLibraryUpdate", oldHash, newHash>>), newHash)

\* the boost::function argument of checkHashes, by name
onPrimaryMismatchCall(callback, s, oldHash, newHash) ==
  IF callback = "onLockfileUpdate" THEN onLockfileUpdate(s, oldHash, newHash)
  ELSE onLibraryUpdate(s, oldHash, newHash)

readStoredHash(s, hashType) == Log(s, <<"getStoredHash", keyOfHashType(hashType)>>)

\* checkHashes without DROP_RECURSIVE_CALLS
checkHashes_noGuard(s, primary, secondary, onPrimaryMismatch) ==
  LET g == enterGuard(s)
      s1 == readStoredHash(Log(g, <<"checkHashes", keyOfHashType(primary)>>),
                           primary)
      oldHash == getStoredHash(s1, primary)
      newHash == getComputedHash(primary)
  IN leaveGuard(
       IF oldHash = newHash THEN s1
       ELSE LET s2 == readStoredHash(s1, secondary)
            IN IF getStoredHash(s2, secondary) = getComputedHash(secondary)
               THEN onPrimaryMismatchCall(onPrimaryMismatch, s2, oldHash, newHash)
               ELSE setStoredHash(setStoredHash(s2, primary, newHash),
                                  secondary, getComputedHash(secondary)))

\* checkHashes looking at the secondary hash although the primary matches
checkHashes_checksSecondary(s, primary, secondary, onPrimaryMismatch) ==
  LET g == enterGuard(s)
  IN IF isCurrentlyRecursing(g.recursionGuardCounter)
     THEN leaveGuard(Log(g, <<"dropped", keyOfHashType(primary)>>))
     ELSE
       LET s1 == readStoredHash(Log(g, <<"checkHashes", keyOfHashType(primary)>>),
                                primary)
           oldHash == getStoredHash(s1, primary)
           newHash == getComputedHash(primary)
           s2 == readStoredHash(s1, secondary)
       IN leaveGuard(
            IF getStoredHash(s2, secondary) = getComputedHash(secondary)
            THEN IF oldHash = newHash THEN s2
                 ELSE onPrimaryMismatchCall(onPrimaryMismatch, s2, oldHash, newHash)
            ELSE setStoredHash(setStoredHash(s2, primary, newHash),
                               secondary, getComputedHash(secondary)))

\* checkHashes whose early return leaves the guard counter raised
checkHashes_guardLeak(s, primary, secondary, onPrimaryMismatch) ==
  LET g == enterGuard(s)
  IN IF isCurrentlyRecursing(g.recursionGuardCounter)
     THEN leaveGuard(Log(g, <<"dropped", keyOfHashType(primary)>>))
     ELSE
       LET s1 == readStoredHash(Log(g, <<"checkHashes", keyOfHashType(primary)>>),
                                primary)
           oldHash == getStoredHash(s1, primary)
           newHash == getComputedHash(primary)
       IN IF oldHash = newHash THEN s1
          ELSE leaveGuard(
                 LET s2 == readStoredHash(s1, secondary)
                 IN IF getStoredHash(s2, secondary) = getComputedHash(secondary)
                    THEN onPrimaryMismatchCall(onPrimaryMismatch, s2, oldHash, newHash)
                    ELSE setStoredHash(setStoredHash(s2, primary, newHash),
                                       secondary, getComputedHash(secondary)))

\* checkHashes whose conflict branch forgets the secondary hash
checkHashes_primaryOnly(s, primary, secondary, onPrimaryMismatch) ==
  LET g == enterGuard(s)
  IN IF isCurrentlyRecursing(g.recursionGuardCounter)
     THEN leaveGuard(Log(g, <<"dropped", keyOfHashType(primary)>>))
     ELSE
       LET s1 == readStoredHash(Log(g, <<"checkHashes", keyOfHashType(primary)>>),
                                primary)
           oldHash == getStoredHash(s1, primary)
           newHash == getComputedHash(primary)
       IN leaveGuard(
            IF oldHash = newHash THEN s1
            ELSE LET s2 == readStoredHash(s1, secondary)
                 IN IF getStoredHash(s2, secondary) = getComputedHash(secondary)
                    THEN onPrimaryMismatchCall(onPrimaryMismatch, s2, oldHash, newHash)
                    ELSE setStoredHash(s2, primary, newHash))

checkHashes(s, primary, secondary, onPrimaryMismatch) ==
  LET g == enterGuard(s)
  IN IF isCurrentlyRecursing(g.recursionGuardCounter)
     THEN leaveGuard(Log(g, <<"dropped", keyOfHashType(primary)>>))
     ELSE
       LET s1 == readStoredHash(Log(g, <<"checkHashes", keyOfHashType(primary)>>),
                                primary)
           oldHash == getStoredHash(s1, primary)
           newHash == getComputedHash(primary)
       IN leaveGuard(
            IF oldHash = newHash THEN s1
            ELSE LET s2 == readStoredHash(s1, secondary)
                 IN IF getStoredHash(s2, secondary) = getComputedHash(secondary)
                    THEN onPrimaryMismatchCall(onPrimaryMismatch, s2, oldHash, newHash)
                    ELSE setStoredHash(setStoredHash(s2, primary, newHash),
                                       secondary, getComputedHash(secondary)))

onFileChanged(s, sourceFilePath) ==
  IF filename(sourceFilePath) = "packrat.lock"
  THEN checkHashes(s, HASH_TYPE_LOCKFILE, HASH_TYPE_LIBRARY, "onLockfileUpdate")
  ELSE IF /\ isWithin(sourceFilePath, libraryPath)
          /\ (sourceFilePath.isDirectory \/ filename(sourceFilePath) = "DESCRIPTION")
  THEN IF \/ filename(sourceFilePath) = "manipulate"
          \/ filename(sourceFilePath) = "rstudio"
          \/ filename(parent(sourceFilePath)) = "manipulate"
          \/ filename(parent(sourceFilePath)) = "rstudio"
       THEN s
       ELSE checkHashes(s, HASH_TYPE_LIBRARY, HASH_TYPE_LOCKFILE, "onLibraryUpdate")
  ELSE s

onPackageLibraryMutated(s) ==
  IF library.exists
  THEN checkHashes(s, HASH_TYPE_LIBRARY, HASH_TYPE_LOCKFILE, "onLibraryUpdate")
  ELSE s

\* AsyncRProcess: process i has exited; it is no longer running when its
\* onCompleted runs
onProcessCompleted(s, i, exitStatus) ==
  onCompleted(
    Log([s EXCEPT !.running = SubSeq(@, 1, i - 1) \o SubSeq(@, i + 1, Len(@))],
        <<"exited", s.running[i].targetHash>>),
    exitStatus)

\* ------------------------------------------------------------ the machine
QueryResults == {"error", "none", "some"}
ExitStatuses == {0, 1}
\* the file-change events delivered while one handler waits in R
Nests == {<<>>, <<LockfilePath>>, <<DescriptionPath>>}

NoPre ==
  [stored |-> [k \in Keys |-> NullValue], pendingSnapshots |-> 0,
   pAutoSnapshot |-> [null |-> TRUE, targetHash |-> ""], running |-> <<>>,
   recursionGuardCounter |-> 0, deferred |-> {},
   lockfile |-> [exists |-> FALSE, content |-> ""],
   library |-> [exists |-> FALSE, desc |-> <<>>]]

Pre ==
  [stored |-> stored, pendingSnapshots |-> pendingSnapshots,
   pAutoSnapshot |-> pAutoSnapshot, running |-> running,
   recursionGuardCounter |-> recursionGuardCounter, deferred |-> deferred,
   lockfile |-> lockfile, library |-> library]

Start(nest, query) ==
  [stored |-> stored, pendingSnapshots |-> pendingSnapshots,
   pAutoSnapshot |-> pAutoSnapshot, running |-> running,
   recursionGuardCounter |-> recursionGuardCounter, deferred |-> deferred,
   nest |-> nest, query |-> query, log |-> <<>>]

\* the primary of the reconciliation pass a handler's log records, or "none"
PassOf(log) ==
  IF \E i \in 1..Len(log) : log[i][1] = "checkHashes"
  THEN log[CHOOSE i \in 1..Len(log) : log[i][1] = "checkHashes"][2]
  ELSE "none"

Commit(r, op, path, exitStatus) ==
  /\ r.pendingSnapshots <= MaxPending
  /\ stored' = r.stored
  /\ pendingSnapshots' = r.pendingSnapshots
  /\ pAutoSnapshot' = r.pAutoSnapshot
  /\ running' = r.running
  /\ recursionGuardCounter' = r.recursionGuardCounter
  /\ deferred' = r.deferred
  /\ last' = [op |-> op, path |-> path, exitStatus |-> exitStatus,
              prior |-> PassOf(last.log), pre |-> Pre, log |-> r.log]
  /\ UNCHANGED <<lockfile, library>>

StoredValues(hashes) == {NullValue} \cup {StringValue(h) : h \in hashes}

Init ==
  /\ lockfile \in Lockfiles
  /\ library \in Libraries
  /\ stored \in [Keys -> {NullValue}]
       \cup {[k \in Keys |-> IF k = keyOfHashType(HASH_TYPE_LOCKFILE)
                             THEN StringValue(computeLockfileHashOf(lf))
                             ELSE StringValue(computeLibraryHashOf(lib))] :
             lf \in Lockfiles, lib \in Libraries}
  /\ pendingSnapshots = 0
  /\ pAutoSnapshot = [null |-> TRUE, targetHash |-> ""]
  /\ running = <<>>
  /\ recursionGuardCounter = 0
  /\ deferred = {}
  /\ last = [op |-> "init", path |-> NoPath, exitStatus |-> 0,
             prior |-> "none", pre |-> NoPre, log |-> <<>>]

OnFileChanged ==
  \E path \in Paths, nest \in Nests, query \in QueryResults :
    Commit(onFileChanged(Start(nest, query), path), "onFileChanged", path, 0)

OnPackageLibraryMutated ==
  \E nest \in Nests, query \in QueryResults :
    Commit(onPackageLibraryMutated(Start(nest, query)),
           "onPackageLibraryMutated", NoPath, 0)

OnProcessCompleted ==
  \E i \in 1..Len(running), exitStatus \in ExitStatuses :
    Commit(onProcessCompleted(Start(<<>>, "none"), i, exitStatus),
           "onCompleted", NoPath, exitStatus)

DiskStep ==
  /\ last' = [op |-> "disk", path |-> NoPath, exitStatus |-> 0,
              prior |-> "none", pre |-> NoPre, log |-> <<>>]
  /\ UNCHANGED <<stored, pendingSnapshots, pAutoSnapshot, running,
                 recursionGuardCounter, deferred>>

\* the lockfile is written or removed (by the user, or by the snapshot tool)
LockfileWritten ==
  /\ \E lf \in Lockfiles \ {lockfile} : lockfile' = lf
  /\ UNCHANGED library
  /\ DiskStep

\* packages are installed into or removed from the library
LibraryWritten ==
  /\ \E lib \in Libraries \ {library} : library' = lib
  /\ UNCHANGED lockfile
  /\ DiskStep

Next ==
  \/ OnFileChanged
  \/ OnPackageLibraryMutated
  \/ OnProcessCompleted
  \/ LockfileWritten
  \/ LibraryWritten

Spec == Init /\ [][Next]_vars

\* ------------------------------------------------ the router's paths
\* every kind of path onFileChanged tells apart
RouterPaths ==
  { LockfilePath,
    DescriptionPath,
    Dir(<<"packrat", "lib", "pkg">>),
    File(<<"packrat", "lib", "pkg", "NAMESPACE">>),
    Dir(<<"packrat", "lib", "manipulate">>),
    File(<<"packrat", "lib", "rstudio", "DESCRIPTION">>),
    File(<<"packrat", "lib", "manipulate", "pkg", "DESCRIPTION">>),
    File(<<"backup", "packrat.lock">>),
    File(<<"R", "code.R">>) }

OnAnyFileChanged ==
  \E path \in RouterPaths, query \in QueryResults :
    Commit(onFileChanged(Start(<<>>, query), path), "onFileChanged", path, 0)

NextRouter ==
  \/ OnAnyFileChanged
  \/ OnProcessCompleted
  \/ LockfileWritten
  \/ LibraryWritten

SpecRouter == Init /\ [][NextRouter]_vars

\* ------------------------------------------------------ runs that fail
\* the snapshot process exits with a status other than 0
OnProcessFailed ==
  \E i \in 1..Len(running), exitStatus \in ExitStatuses \ {0} :
    Commit(onProcessCompleted(Start(<<>>, "none"), i, exitStatus),
           "onCompleted", NoPath, exitStatus)

\* the behaviours in which no snapshot succeeds: every process was started
\* by onLibraryUpdate, and a process that has ended has failed
NextFailing ==
  \/ OnFileChanged
  \/ OnPackageLibraryMutated
  \/ OnProcessFailed
  \/ LockfileWritten
  \/ LibraryWritten

SpecFailing == Init /\ [][NextFailing]_vars

TypeOK ==
  /\ lockfile \in Lockfiles
  /\ library \in Libraries
  /\ pendingSnapshots \in 0..MaxPending
  /\ recursionGuardCounter \in Nat

\* ------------------------------------------------- reading the last step
Handlers == {"onFileChanged", "onPackageLibraryMutated"}
LOCKFILE_KEY == keyOfHashType(HASH_TYPE_LOCKFILE)
LIBRARY_KEY == keyOfHashType(HASH_TYPE_LIBRARY)

Has(tag) == \E i \in 1..Len(last.log) : last.log[i][1] = tag
Count(tag) == Cardinality({i \in 1..Len(last.log) : last.log[i][1] = tag})
HasEntry(entry) == \E i \in 1..Len(last.log) : last.log[i] = entry

PreStored(hashType) == getStoredHash(last.pre, hashType)
PreRunning == isRunning(last.pre)

\* the last step was a handler that ran a reconciliation pass for this primary
Passed(hashType) ==
  last.op \in Handlers /\ HasEntry(<<"checkHashes", keyOfHashType(hashType)>>)

LockfileDrifted == PreStored(HASH_TYPE_LOCKFILE) # computeLockfileHash
LibraryDrifted == PreStored(HASH_TYPE_LIBRARY) # computeLibraryHash

SchedulerUnchanged ==
  /\ pendingSnapshots = last.pre.pendingSnapshots
  /\ pAutoSnapshot = last.pre.pAutoSnapshot
  /\ running = last.pre.running

\* ------------------------------------------------------------------- C1
\* C1: at most one snapshot process runs at any time, and a handler starts
\* a process only when none was running before it.
C1_AtMostOneProcess ==
  /\ Len(running) <= 1
  /\ Count("start") <= 1
  /\ (last.op \in Handlers /\ Has("start") => last.pre.running = <<>>)

C1_Witness ==
  /\ last.op \in Handlers
  /\ PreRunning
  /\ Has("performAutoSnapshot")
  /\ Len(running) = 1

\* ------------------------------------------------------------------- C2
\* C2: a request for the target of the running snapshot starts nothing and
\* changes neither pendingSnapshots nor the active target; one process runs.
C2_SameTargetRequest ==
  /\ last.op \in Handlers
  /\ PreRunning
  /\ HasEntry(<<"performAutoSnapshot", last.pre.pAutoSnapshot.targetHash>>)

C2_Coalescing ==
  C2_SameTargetRequest =>
    /\ Count("start") = 0
    /\ Count("queue") = 0
    /\ SchedulerUnchanged
    /\ Len(running) = 1

C2_Witness ==
  /\ C2_SameTargetRequest
  /\ HasEntry(<<"ignore", pAutoSnapshot.targetHash>>)
  /\ running = <<[targetHash |-> pAutoSnapshot.targetHash, current |-> TRUE]>>

\* ------------------------------------------------------------------- C3
\* C3: when a run exits with status 0 and requests are queued, exactly one
\* snapshot is started, for the library hash computed at that moment, and
\* pendingSnapshots is 0 afterwards.
C3_CompletedWithQueue ==
  /\ last.op = "onCompleted"
  /\ last.exitStatus = 0
  /\ last.pre.pendingSnapshots > 0

C3_QueuedFollowUp ==
  C3_CompletedWithQueue =>
    /\ Count("start") = 1
    /\ HasEntry(<<"start", computeLibraryHash>>)
    /\ running = <<[targetHash |-> computeLibraryHash, current |-> TRUE]>>
    /\ pAutoSnapshot = [null |-> FALSE, targetHash |-> computeLibraryHash]
    /\ pendingSnapshots = 0

\* the follow-up's target is neither the finished run's nor a queued one
C3_Witness ==
  /\ C3_CompletedWithQueue
  /\ last.pre.deferred # {}
  /\ pAutoSnapshot.targetHash \notin last.pre.deferred
  /\ pAutoSnapshot.targetHash # last.pre.pAutoSnapshot.targetHash
  /\ Len(running) = 1

\* ------------------------------------------------------------------- C4
\* C4: a pass that finds both artifacts drifted stores both computed hashes,
\* calls no callback, starts and queues no snapshot and emits nothing.
C4_BothDrifted ==
  /\ last.op \in Handlers
  /\ Has("checkHashes")
  /\ LockfileDrifted
  /\ LibraryDrifted

C4_ConflictPolicy ==
  C4_BothDrifted =>
    /\ stored = [k \in Keys |-> IF k = LOCKFILE_KEY
                                THEN StringValue(computeLockfileHash)
                                ELSE StringValue(computeLibraryHash)]
    /\ ~Has("onLockfileUpdate") /\ ~Has("onLibraryUpdate")
    /\ ~Has("performAutoSnapshot") /\ ~Has("start") /\ ~Has("queue")
    /\ ~Has("event") /\ ~Has("pendingRestoreActions")
    /\ SchedulerUnchanged

C4_Witness ==
  /\ C4_BothDrifted
  /\ Count("setStoredHash") = 2
  /\ stored # last.pre.stored

\* ------------------------------------------------------------------- C5
\* C5: when the lockfile alone drifted, pending restore actions leave the
\* stored lockfile hash alone and emit kPackratRestoreNeeded; no pending
\* actions store the computed hash and emit nothing; no snapshot either way.
C5_LockfileOnly ==
  /\ Passed(HASH_TYPE_LOCKFILE)
  /\ LockfileDrifted
  /\ ~LibraryDrifted

C5_RestoreGating ==
  C5_LockfileOnly =>
    /\ HasEntry(<<"pendingRestoreActions", "some">>) =>
         /\ stored = last.pre.stored
         /\ Count("event") = 1
         /\ HasEntry(<<"event", "kPackratRestoreNeeded">>)
    /\ HasEntry(<<"pendingRestoreActions", "none">>) =>
         /\ stored = [last.pre.stored EXCEPT
                        ![LOCKFILE_KEY] = StringValue(computeLockfileHash)]
         /\ Count("event") = 0
    /\ ~Has("performAutoSnapshot") /\ ~Has("start") /\ ~Has("queue")
    /\ SchedulerUnchanged

C5_Witness ==
  /\ C5_LockfileOnly
  /\ HasEntry(<<"pendingRestoreActions", "some">>)
  /\ HasEntry(<<"event", "kPackratRestoreNeeded">>)
  /\ getStoredHash([stored |-> stored], HASH_TYPE_LOCKFILE) # computeLockfileHash

\* ------------------------------------------------------------------- C6
\* C6: a handler runs at most one reconciliation pass; a checkHashes call
\* made while a pass runs is dropped, and the handler ends as it would
\* have ended without the nested event.
NotDropped(entry) == entry[1] # "dropped"

PreStart(query) ==
  [stored |-> last.pre.stored, pendingSnapshots |-> last.pre.pendingSnapshots,
   pAutoSnapshot |-> last.pre.pAutoSnapshot, running |-> last.pre.running,
   recursionGuardCounter |-> last.pre.recursionGuardCounter,
   deferred |-> last.pre.deferred,
   nest |-> <<>>, query |-> query, log |-> <<>>]

WithoutNesting(query) ==
  IF last.op = "onFileChanged" THEN onFileChanged(PreStart(query), last.path)
  ELSE onPackageLibraryMutated(PreStart(query))

C6_GuardExclusion ==
  last.op \in Handlers =>
    /\ Count("checkHashes") <= 1
    /\ recursionGuardCounter = 0
    /\ \E query \in QueryResults :
         LET r == WithoutNesting(query)
         IN /\ r.log = SelectSeq(last.log, NotDropped)
            /\ r.stored = stored
            /\ r.pendingSnapshots = pendingSnapshots
            /\ r.pAutoSnapshot = pAutoSnapshot
            /\ r.running = running

C6_Witness ==
  /\ last.op \in Handlers
  /\ Count("checkHashes") = 1
  /\ Has("dropped")

\* ------------------------------------------------------------------- C7
\* the last step and the step before it ran a pass for the same primary
\* (a write to the disk is a step, so none lies between them)
C7_SecondCall ==
  /\ last.op \in Handlers
  /\ PassOf(last.log) # "none"
  /\ last.prior = PassOf(last.log)

\* the pass found the stored primary hash equal to the computed one
C7_ObservedEqual ==
  /\ Len(last.log) = 2
  /\ stored = last.pre.stored
  /\ SchedulerUnchanged

\* C7 as claimed: the second of two successive passes starts no snapshot,
\* finds the primary's stored hash equal to its computed hash and does nothing.
C7_Original ==
  C7_SecondCall => (~Has("start") /\ C7_ObservedEqual)

\* C7 as amended: the second of two successive passes starts no snapshot and
\* leaves the running process and its target alone; it does nothing, or it
\* calls the mismatch callback again, and then a library request is ignored
\* or queued.
C7_Idempotence ==
  C7_SecondCall =>
    /\ ~Has("start")
    /\ running = last.pre.running
    /\ pAutoSnapshot = last.pre.pAutoSnapshot
    /\ \/ C7_ObservedEqual
       \/ Has("onLockfileUpdate")
       \/ Has("onLibraryUpdate") /\ (Has("ignore") \/ Has("queue"))

C7_Witness ==
  /\ C7_SecondCall
  /\ Has("onLibraryUpdate")
  /\ HasEntry(<<"ignore", computeLibraryHash>>)
  /\ Len(running) = 1

\* ------------------------------------------------------------------- C8
\* C8: a run that exits with status 0 and an empty queue stores the hashes
\* computed then, emits one kInstalledPackagesChanged and starts nothing;
\* a library-only drift with no run starts exactly one snapshot for the
\* computed library hash.
C8_CompletedCaughtUp ==
  /\ last.op = "onCompleted"
  /\ last.exitStatus = 0
  /\ last.pre.pendingSnapshots = 0

C8_LibraryOnlyIdle ==
  /\ Passed(HASH_TYPE_LIBRARY)
  /\ LibraryDrifted
  /\ ~LockfileDrifted
  /\ ~PreRunning

C8_Completion ==
  /\ C8_CompletedCaughtUp =>
       /\ stored = [k \in Keys |-> IF k = LOCKFILE_KEY
                                   THEN StringValue(computeLockfileHash)
                                   ELSE StringValue(computeLibraryHash)]
       /\ Count("event") = 1
       /\ HasEntry(<<"event", "kInstalledPackagesChanged">>)
       /\ ~Has("start") /\ ~Has("performAutoSnapshot")
       /\ running = <<>>
       /\ pendingSnapshots = 0
  /\ C8_LibraryOnlyIdle =>
       /\ Count("start") = 1
       /\ HasEntry(<<"start", computeLibraryHash>>)
       /\ running = <<[targetHash |-> computeLibraryHash, current |-> TRUE]>>
       /\ stored = last.pre.stored

\* the finished run wrote a lockfile the store did not know
C8_Witness ==
  /\ C8_CompletedCaughtUp
  /\ stored[LOCKFILE_KEY] # last.pre.stored[LOCKFILE_KEY]
  /\ stored[LIBRARY_KEY] # last.pre.stored[LIBRARY_KEY]
  /\ HasEntry(<<"event", "kInstalledPackagesChanged">>)

\* ------------------------------------------------------------------- C9
\* C9: a run that exits with a status other than 0 writes no stored hash,
\* emits nothing and starts nothing, whatever pendingSnapshots is.
C9_Failed == last.op = "onCompleted" /\ last.exitStatus # 0

C9_FailedRun ==
  C9_Failed =>
    /\ stored = last.pre.stored
    /\ pendingSnapshots = last.pre.pendingSnapshots
    /\ pAutoSnapshot = last.pre.pAutoSnapshot
    /\ Len(last.log) = 1 /\ last.log[1][1] = "exited"
    /\ running = <<>>

C9_Witness ==
  /\ C9_Failed
  /\ last.pre.pendingSnapshots > 0
  /\ LibraryDrifted

\* ------------------------------------------------------------------ C10
C10_QueryFailed ==
  /\ C5_LockfileOnly
  /\ HasEntry(<<"pendingRestoreActions", "error">>)

\* C10 as claimed: after a failed query the computed lockfile hash is stored
\* and kPackratRestoreNeeded is not emitted.
C10_Original ==
  C10_QueryFailed =>
    /\ stored[LOCKFILE_KEY] = StringValue(computeLockfileHash)
    /\ ~HasEntry(<<"event", "kPackratRestoreNeeded">>)

\* C10 as amended: after a failed query the handler returns at once: no
\* stored hash is written, nothing is emitted, no snapshot is started, and
\* the lockfile stays drifted.
C10_QueryFailure ==
  C10_QueryFailed =>
    /\ stored = last.pre.stored
    /\ ~Has("setStoredHash") /\ ~Has("event")
    /\ ~Has("start") /\ ~Has("queue")
    /\ SchedulerUnchanged
    /\ getStoredHash([stored |-> stored], HASH_TYPE_LOCKFILE) # computeLockfileHash

C10_Witness ==
  /\ C10_QueryFailed
  /\ stored = last.pre.stored
  /\ lockfile.exists

\* ------------------------------------------------------------------ C11
NothingDone ==
  /\ last.log = <<>>
  /\ stored = last.pre.stored
  /\ SchedulerUnchanged

\* C11 as claimed: only an event for the project's lockfile path runs the
\* lockfile reconciliation, and an event for a path that is neither that
\* path nor inside the library does nothing.
C11_Original ==
  last.op = "onFileChanged" =>
    /\ HasEntry(<<"checkHashes", LOCKFILE_KEY>>) => last.path = LockfilePath
    /\ (last.path # LockfilePath /\ ~isWithin(last.path, libraryPath)) =>
         NothingDone

\* ------------------------------------------------------------------ C12
C12_DeferredCompleted ==
  /\ last.op = "onCompleted"
  /\ last.pre.deferred # {}

\* C12 as claimed: when the run during which a request with another target
\* was queued completes, the completion starts a further snapshot.
C12_Original == C12_DeferredCompleted => Has("start")

\* C12 as amended: the completion starts the further snapshot when the exit
\* status is 0; with any other exit status the completion starts nothing.
C12_NotLost ==
  C12_DeferredCompleted =>
    /\ last.exitStatus = 0 =>
         /\ Count("start") = 1
         /\ Len(running) = 1
         /\ deferred = {}
         /\ pendingSnapshots = 0
    /\ last.exitStatus # 0 =>
         /\ ~Has("start")
         /\ running = <<>>

C12_Witness ==
  /\ C12_DeferredCompleted
  /\ last.exitStatus = 0
  /\ last.pre.pendingSnapshots >= 1
  /\ HasEntry(<<"start", computeLibraryHash>>)

\* ------------------------------------------------------------------ C13
\* the last step was a library pass, and before it the snapshot for the
\* library's present content had ended (in SpecFailing: had failed)
C13_RetryDue ==
  /\ Passed(HASH_TYPE_LIBRARY)
  /\ ~last.pre.pAutoSnapshot.null
  /\ ~PreRunning
  /\ last.pre.pAutoSnapshot.targetHash = computeLibraryHash

\* C13 as claimed: the library pass after a failed snapshot, the library
\* unchanged, starts a snapshot for the same hash again.
C13_Original ==
  C13_RetryDue => HasEntry(<<"start", computeLibraryHash>>)

\* ------------------------------------------------------------------ C14
ReservedNames == {"manipulate", "rstudio"}

\* the path is, or lies at any depth below, a reserved directory of the library
WithinReserved(path) ==
  \E i \in (Len(libraryPath.comps) + 1)..Len(path.comps) :
    path.comps[i] \in ReservedNames

\* C14 as claimed: an event inside the library for a path within a reserved
\* directory never runs the library reconciliation; every other event inside
\* the library for a directory or a DESCRIPTION file does.
C14_Original ==
  (last.op = "onFileChanged" /\ isWithin(last.path, libraryPath)) =>
    /\ WithinReserved(last.path) => ~HasEntry(<<"checkHashes", LIBRARY_KEY>>)
    /\ (/\ ~WithinReserved(last.path)
        /\ (last.path.isDirectory \/ filename(last.path) = "DESCRIPTION")) =>
         HasEntry(<<"checkHashes", LIBRARY_KEY>>)

\* ------------------------------------------------------------------ C15
\* a request for a target other than the running snapshot's
C15_DivergentRequest ==
  /\ last.op \in Handlers
  /\ PreRunning
  /\ Has("performAutoSnapshot")
  /\ ~HasEntry(<<"performAutoSnapshot", last.pre.pAutoSnapshot.targetHash>>)

\* C15: pendingSnapshots grows only by a request that arrives while a
\* snapshot with another target runs, by one for each; nothing else raises
\* it, and it is 0 when a completion starts the queued snapshot.
C15_PendingCount ==
  last.op \in (Handlers \cup {"onCompleted"}) =>
    /\ pendingSnapshots > last.pre.pendingSnapshots => C15_DivergentRequest
    /\ C15_DivergentRequest =>
         /\ pendingSnapshots = last.pre.pendingSnapshots + 1
         /\ Count("queue") = 1
         /\ running = last.pre.running
    /\ (last.op = "onCompleted" /\ Has("start")) => pendingSnapshots = 0

C15_Witness ==
  /\ C15_DivergentRequest
  /\ last.pre.pendingSnapshots = 1
  /\ pendingSnapshots = 2

\* ------------------------------------------------------------------ C16
C16_PrimaryUnchanged ==
  \/ Passed(HASH_TYPE_LOCKFILE) /\ ~LockfileDrifted
  \/ Passed(HASH_TYPE_LIBRARY) /\ ~LibraryDrifted

\* C16: a pass that finds the primary's stored hash equal to its computed
\* hash only reads that hash: no stored hash, pendingSnapshots or process
\* changes, no callback runs and nothing is emitted, whatever the secondary.
C16_NoOp ==
  C16_PrimaryUnchanged =>
    /\ stored = last.pre.stored
    /\ SchedulerUnchanged
    /\ last.log = << <<"checkHashes", PassOf(last.log)>>,
                     <<"getStoredHash", PassOf(last.log)>> >>

\* the secondary has drifted
C16_Witness ==
  \/ Passed(HASH_TYPE_LOCKFILE) /\ ~LockfileDrifted /\ LibraryDrifted
       /\ stored = last.pre.stored
  \/ Passed(HASH_TYPE_LIBRARY) /\ ~LibraryDrifted /\ LockfileDrifted
       /\ stored = last.pre.stored

\* ------------------------------------------------------------------ C17
\* the handler's call of checkHashes ran a pass
C17_Executed ==
  /\ last.log # <<>>
  /\ last.log[1][1] = "checkHashes"
  /\ Count("checkHashes") = 1

\* C17: the guard counter is 0 between handlers, whatever branch the last
\* pass returned by, so every top-level reconciliation request runs a pass.
C17_GuardReleased ==
  /\ recursionGuardCounter = 0
  /\ last.op = "onFileChanged" => C17_Executed
  /\ (last.op = "onPackageLibraryMutated" /\ library.exists) => C17_Executed

\* a pass that returned after a failed query, right after another pass
C17_Witness ==
  /\ last.op \in Handlers
  /\ last.prior # "none"
  /\ C17_Executed
  /\ HasEntry(<<"pendingRestoreActions", "error">>)
  /\ recursionGuardCounter = 0

\* ------------------------------------------------------------------ C18
\* C18 as claimed: pendingSnapshots is positive only while a snapshot runs.
C18_Original == pendingSnapshots > 0 => Len(running) > 0

\* ------------------------------------------------------------------ C19
\* C19 as claimed: a handler that runs while a snapshot started for a
\* library drift is running writes no stored hash.
C19_Original ==
  (last.op \in Handlers /\ PreRunning) => stored = last.pre.stored

\* ------------------------------------------------------------------ C20
\* nothing stored, no lockfile, no DESCRIPTION in the library
C20_NeverAdopted ==
  /\ last.op \in Handlers
  /\ \A k \in Keys : last.pre.stored[k] = NullValue
  /\ ~lockfile.exists
  /\ library.desc = <<>>

\* C20: for a project with nothing stored, no lockfile and no DESCRIPTION,
\* every file-change event and library-mutated signal writes no hash, starts
\* no snapshot, makes no query and emits nothing.
C20_Untracked ==
  C20_NeverAdopted =>
    /\ stored = last.pre.stored
    /\ SchedulerUnchanged
    /\ ~Has("setStoredHash") /\ ~Has("performAutoSnapshot") /\ ~Has("start")
    /\ ~Has("queue") /\ ~Has("pendingRestoreActions") /\ ~Has("event")

C20_Witness ==
  /\ C20_NeverAdopted
  /\ last.op = "onPackageLibraryMutated"
  /\ Has("checkHashes")
  /\ running = <<>>

====
